---- MODULE Spec2Model ----
(***************************************************************************)
(* Internship portal: the datastore schema, its triggers and row-level     *)
(* security policies (the SQL migrations), and the client handlers that    *)
(* call it (StudentDashboard.handleApply, AdminDashboard.fetchApplications *)
(* and AdminDashboard.handleStatusUpdate, Auth.handleSignUp and            *)
(* Auth.handleSignIn), the send-application-email function and the route   *)
(* guards (ProtectedRoute, Index).                                         *)
(***************************************************************************)
EXTENDS Integers, FiniteSets, Sequences, TLC

\* ---------------------------------------------------------------- bounds
MaxUsers == 2          \* principals ever created
MaxPostings == 2       \* internship rows ever created (sample rows included)
SamplePostings == 1    \* rows of the migration's sample INSERT kept in the model
MaxTime == 3           \* committed writes to the applications table
MaxInflight == 2       \* client requests issued and not yet answered

\* ---------------------------------------------------------------- values
NoUid == 0                         \* auth.uid() of a request without a session
NULL == "NULL"                     \* SQL NULL in a text column
UserIds == 1..MaxUsers
PostingIds == 1..MaxPostings
AppIds == 1..MaxTime
app_role == {"student", "admin"}
StatusValues == {"pending", "accepted", "rejected"}
StatusInputs == StatusValues \cup {NULL, "archived"}
FeedbackInputs == {NULL, "Great fit"}
MetaRoles == {"admin", "student", NULL}
StudentIds == {NULL, "2400030001"}
Emails == {"a@klu", "b@klu"}
ActiveInputs == {TRUE, FALSE}
\* texts typed into the Auth forms, as sequences of characters
EmailInputs ==
  { <<"a", "@", "b", ".", "c", "o">>, <<" ", "a", "@", "b", ".", "c", "o", " ">>,
    <<"a", "@", "b", ".", "c">>, <<"a", "@", "b">>, <<"a", "b", ".", "c", "o">>,
    <<"a", " ", "@", "b", ".", "c", "o">>, <<>> }
PasswordInputs ==
  { <<>>, <<" ">>, <<"1", "2", "3", "4", "5">>, <<"1", "2", "3", "4", "5", "6">> }
NameInputs == { <<>>, <<" ", " ">>, <<"a", " ", "b">> }
UserTypes == {"student", "admin"}

VARIABLES
  users,          \* auth.users: ids of the existing principals
  sessions,       \* ids for which the identity provider has issued a session token
  profiles,       \* public.profiles rows
  user_roles,     \* public.user_roles rows
  internships,    \* public.internships rows
  applications,   \* public.applications rows
  now,            \* the datastore's clock, read by now()
  nextPosting,    \* number of internship ids handed out (gen_random_uuid)
  seen,           \* AdminDashboard state `applications` per signed-in principal
  inflight,       \* client handlers suspended at an await
  notified,       \* calls made to the send-application-email function
  loading,        \* AdminDashboard state `loading` per signed-in principal
  processingId,   \* AdminDashboard state `processingId` (0 for null)
  authLoading,    \* Auth page state `loading`
  route,          \* the browser's location
  auth,           \* what useAuth() returns: user, loading, userRole
  last            \* the request answered last and its answer

dbVars == <<users, sessions, profiles, user_roles, internships, applications, now, nextPosting>>
uiVars == <<seen, inflight, notified, loading, processingId>>
pageVars == <<authLoading, route, auth>>
vars == <<users, sessions, profiles, user_roles, internships, applications, now,
          nextPosting, seen, inflight, notified, loading, processingId,
          authLoading, route, auth, last>>

\* the values a request names: the row id of a filter, the columns of a new
\* row, the metadata of a signup; a request naming no values
NoArg ==
  [id |-> 0, internship_id |-> 0, student_id |-> 0, status |-> "NULL",
   feedback |-> "NULL", role |-> "NULL", student_no |-> "NULL",
   email |-> <<>>, password |-> <<>>, fullName |-> <<>>,
   to |-> "NULL", subject |-> "NULL", html |-> "NULL"]

Arg(id, internship_id, student_id, status) ==
  [NoArg EXCEPT !.id = id, !.internship_id = internship_id,
                !.student_id = student_id, !.status = status]

\* an answer of the datastore: the operation, the requester, the error code
\* ("none" when the statement succeeded), the ids of the rows returned or
\* written, and the values the request named
AnswerTo(op, uid, err, rows, arg) ==
  [op |-> op, uid |-> uid, err |-> err, rows |-> rows, arg |-> arg]

Answer(op, uid, err, rows) == AnswerTo(op, uid, err, rows, NoArg)

\* SQL equality on uuid columns: NULL (NoUid) on either side is not true
UidEq(a, b) == a # NoUid /\ b # NoUid /\ a = b

\* SQL equality on text columns: NULL on either side is not true
TextEq(a, b) == a # NULL /\ b # NULL /\ a = b

\* auth.role(): 'authenticated' for a request carrying a session token, else 'anon'
AuthRole(uid) == IF uid = NoUid THEN "anon" ELSE "authenticated"

\* the requesters: every issued session, and the request without one
Requesters == sessions \cup {NoUid}

\* ---------------------------------------------------------------- has_role
has_role(_user_id, _role) ==
  \E r \in user_roles : UidEq(r.user_id, _user_id) /\ r.role = _role

\* ---------------------------------------------------------------- policies
\* the profile policy as it would be if admins were admitted to every row
ProfilesSelectOwnOrAdmin(uid, row) == UidEq(uid, row.id) \/ has_role(uid, "admin")

\* "Users can view their own profile"
ProfilesSelectPolicy(uid, row) == UidEq(uid, row.id)

\* "Users can update their own profile"
ProfilesUpdatePolicy(uid, row) == UidEq(uid, row.id)

\* "Users can view their own roles"
UserRolesSelectPolicy(uid, row) == UidEq(uid, row.user_id)

\* the internships policy as it would be without its is_active condition
InternshipsSelectAll(uid, row) == AuthRole(uid) = "authenticated"

\* the internships policy as it would be without its auth.role() condition
InternshipsSelectActive(uid, row) == row.is_active = TRUE

\* "Anyone authenticated can view active internships"
InternshipsSelectPolicy(uid, row) ==
  AuthRole(uid) = "authenticated" /\ row.is_active = TRUE

\* the manage policy as it would be if it admitted every signed-in requester
InternshipsAllAuthenticated(uid, row) == AuthRole(uid) = "authenticated"

\* "Admins can manage internships" (FOR ALL: select, insert, update, delete)
InternshipsAllPolicy(uid, row) == has_role(uid, "admin")

\* the select policy as it would be if it admitted every signed-in requester
ApplicationsSelectAnyone(uid, row) == AuthRole(uid) = "authenticated"

\* "Students can view their own applications"
ApplicationsSelectOwnPolicy(uid, row) == UidEq(uid, row.student_id)

\* the insert policy as it would be without its status condition
ApplicationsInsertAnyStatus(uid, row) == UidEq(uid, row.student_id)

\* "Students can create their own applications" (WITH CHECK on the new row)
ApplicationsInsertPolicy(uid, row) ==
  UidEq(uid, row.student_id) /\ TextEq(row.status, "pending")

\* "Admins can view all applications"
ApplicationsSelectAdminPolicy(uid, row) == has_role(uid, "admin")

\* the update policy as it would be if the row's owner were admitted too
ApplicationsUpdatePolicyOwner(uid, row) ==
  has_role(uid, "admin") \/ UidEq(uid, row.student_id)

\* "Admins can update applications"
ApplicationsUpdatePolicy(uid, row) == has_role(uid, "admin")

\* permissive policies of one command are OR-ed; a table with row-level
\* security enabled and no policy for a command admits no row
CanSelectProfile(uid, row) == ProfilesSelectPolicy(uid, row)
CanUpdateProfile(uid, row) == ProfilesUpdatePolicy(uid, row)
CanSelectUserRole(uid, row) == UserRolesSelectPolicy(uid, row)
CanSelectInternship(uid, row) ==
  InternshipsSelectPolicy(uid, row) \/ InternshipsAllPolicy(uid, row)
CanWriteInternship(uid, row) == InternshipsAllPolicy(uid, row)
CanSelectApplication(uid, row) ==
  ApplicationsSelectOwnPolicy(uid, row) \/ ApplicationsSelectAdminPolicy(uid, row)
CanInsertApplication(uid, row) == ApplicationsInsertPolicy(uid, row)
CanUpdateApplication(uid, row) == ApplicationsUpdatePolicy(uid, row)


\* the policies a mutation of the schema could have added for commands that
\* have none
ProfilesInsertOwn(uid, row) == UidEq(uid, row.id)

ProfilesDeleteOwn(uid, row) == UidEq(uid, row.id)

UserRolesInsertOwn(uid, row) == UidEq(uid, row.user_id)

UserRolesUpdateOwn(uid, row) == UidEq(uid, row.user_id)

UserRolesDeleteOwn(uid, row) == UidEq(uid, row.user_id)

ApplicationsDeleteOwn(uid, row) == UidEq(uid, row.student_id)

\* ENABLE ROW LEVEL SECURITY with no policy for a command: the permissive
\* policies of that command are OR-ed, and the empty disjunction admits no row
CanInsertProfile(uid, row) == FALSE

CanDeleteProfile(uid, row) == FALSE

CanInsertUserRole(uid, row) == FALSE

CanUpdateUserRole(uid, row) == FALSE

CanDeleteUserRole(uid, row) == FALSE

CanDeleteApplication(uid, row) == FALSE

\* ---------------------------------------------------------------- schema
\* CHECK (status IN ('pending', 'accepted', 'rejected')): a CHECK passes on NULL
StatusCheck(status) == status = NULL \/ status \in StatusValues

Ids(rows) == {r.id : r \in rows}

ProfileRow(id, email, student_id) ==
  [id |-> id, email |-> email, student_id |-> student_id]

InternshipRow(id, is_active) == [id |-> id, is_active |-> is_active]

ApplicationRow(id, internship_id, student_id, status, feedback, applied_at, updated_at) ==
  [id |-> id, internship_id |-> internship_id, student_id |-> student_id,
   status |-> status, feedback |-> feedback,
   applied_at |-> applied_at, updated_at |-> updated_at]

\* the email address the identity provider holds for a new principal
EmailOf(id) == IF id = 1 THEN "a@klu" ELSE "b@klu"

\* the sample internships of the migration: is_active takes its default, true
SampleInternships == {InternshipRow(i, TRUE) : i \in 1..SamplePostings}

\* the row as it would be written without the BEFORE UPDATE trigger
UpdateWithoutTrigger(new, t) == new

\* update_application_timestamp, BEFORE UPDATE ON applications
update_application_timestamp(new, t) == [new EXCEPT !.updated_at = t]

\* ---------------------------------------------------------------- Init
Init ==
  /\ users = {}
  /\ sessions = {}
  /\ profiles = {}
  /\ user_roles = {}
  /\ internships = SampleInternships
  /\ applications = {}
  /\ now = 0
  /\ nextPosting = SamplePostings
  /\ seen = [u \in UserIds |-> {}]
  /\ loading = [u \in UserIds |-> TRUE]
  /\ processingId = [u \in UserIds |-> 0]
  /\ authLoading = FALSE
  /\ route = "/"
  /\ auth = [user |-> NoUid, loading |-> TRUE, userRole |-> NULL]
  /\ inflight = {}
  /\ notified = {}
  /\ last = Answer("init", NoUid, "none", {})

\* ---------------------------------------------------------------- identity
\* handle_new_user: the profile insert, then the role insert; "none" or the
\* error that aborts the trigger and with it the insert into auth.users
HandleNewUserError(student_id) ==
  IF \E p \in profiles : TextEq(p.student_id, student_id) THEN "unique" ELSE "none"

\* the trigger's test as it would be if only 'student' led to the student role
HandleNewUserRoleDefaultAdmin(meta_role) ==
  IF TextEq(meta_role, "student") THEN "student" ELSE "admin"

HandleNewUserRole(meta_role) == IF TextEq(meta_role, "admin") THEN "admin" ELSE "student"

\* the trigger as it would be if only the admin branch inserted a role
HandleNewUserRolesAdminOnly(id, meta_role) ==
  IF TextEq(meta_role, "admin") THEN {[user_id |-> id, role |-> "admin"]} ELSE {}

HandleNewUserRoles(id, meta_role) ==
  {[user_id |-> id, role |-> HandleNewUserRole(meta_role)]}

\* the signup as it would be if the trigger ran outside the transaction of the
\* INSERT INTO auth.users: a failed trigger leaves the principal behind
CreateUserOutsideTransaction(meta_role, student_id) ==
  LET id == Cardinality(sessions) + 1
      err == HandleNewUserError(student_id)
  IN /\ id \in UserIds
     /\ users' = users \cup {id}
     /\ sessions' = sessions \cup {id}
     /\ IF err = "none"
        THEN /\ profiles' = profiles \cup {ProfileRow(id, EmailOf(id), student_id)}
             /\ user_roles' = user_roles \cup HandleNewUserRoles(id, meta_role)
        ELSE UNCHANGED <<profiles, user_roles>>
     /\ last' = AnswerTo("signup", NoUid, err, IF err = "none" THEN {id} ELSE {},
                         [NoArg EXCEPT !.role = meta_role, !.student_no = student_id])
     /\ UNCHANGED <<internships, applications, now, nextPosting, uiVars, pageVars>>

\* INSERT INTO auth.users by the identity provider (signup), with the
\* AFTER INSERT trigger on_auth_user_created in the same transaction
DoCreateUser(meta_role, student_id) ==
  LET id == Cardinality(sessions) + 1
      err == HandleNewUserError(student_id)
  IN /\ id \in UserIds
     /\ IF err = "none"
        THEN /\ users' = users \cup {id}
             /\ sessions' = sessions \cup {id}
             /\ profiles' = profiles \cup {ProfileRow(id, EmailOf(id), student_id)}
             /\ user_roles' = user_roles \cup HandleNewUserRoles(id, meta_role)
        ELSE UNCHANGED <<users, sessions, profiles, user_roles>>
     /\ last' = AnswerTo("signup", NoUid, err, IF err = "none" THEN {id} ELSE {},
                         [NoArg EXCEPT !.role = meta_role, !.student_no = student_id])

\* a signup sent to the identity provider directly
CreateUser(meta_role, student_id) ==
  /\ DoCreateUser(meta_role, student_id)
  /\ UNCHANGED <<internships, applications, now, nextPosting, uiVars, pageVars>>

\* DELETE FROM auth.users by the identity provider: profiles, user_roles and
\* applications go with it (ON DELETE CASCADE); a session token already issued
\* stays valid until it expires
DeleteUser(id) ==
  /\ id \in users
  /\ users' = users \ {id}
  /\ profiles' = {p \in profiles : p.id # id}
  /\ user_roles' = {r \in user_roles : r.user_id # id}
  /\ applications' = {a \in applications : a.student_id # id}
  /\ last' = Answer("delete_user", NoUid, "none", {id})
  /\ UNCHANGED <<sessions, internships, now, nextPosting, uiVars, pageVars>>

\* ---------------------------------------------------------------- profiles, user_roles
\* SELECT on profiles: the rows the policy admits; never an error
SelectProfiles(uid) == {p \in profiles : CanSelectProfile(uid, p)}

ReadProfiles(uid) ==
  /\ last' = Answer("select_profiles", uid, "none", Ids(SelectProfiles(uid)))
  /\ UNCHANGED <<dbVars, uiVars, pageVars>>

\* UPDATE profiles SET email = .. WHERE id = ..: the rows the UPDATE policy and
\* the SELECT policy admit (the filter reads the row); no row is no error
UpdateProfileTargets(uid, id) ==
  {p \in profiles : p.id = id /\ CanUpdateProfile(uid, p) /\ CanSelectProfile(uid, p)}

UpdateProfile(uid, id, email) ==
  LET targets == UpdateProfileTargets(uid, id)
  IN /\ profiles' = (profiles \ targets) \cup {[p EXCEPT !.email = email] : p \in targets}
     /\ last' = Answer("update_profile", uid, "none", Ids(targets))
     /\ UNCHANGED <<users, sessions, user_roles, internships, applications, now,
                    nextPosting, uiVars, pageVars>>

\* SELECT on user_roles
SelectUserRoles(uid) == {r \in user_roles : CanSelectUserRole(uid, r)}

ReadUserRoles(uid) ==
  /\ last' = Answer("select_user_roles", uid, "none", {r.user_id : r \in SelectUserRoles(uid)})
  /\ UNCHANGED <<dbVars, uiVars, pageVars>>

\* the function as a SECURITY INVOKER would run it: over the rows the caller
\* may select
HasRoleAsInvoker(uid, _user_id, _role) ==
  \E r \in SelectUserRoles(uid) : UidEq(r.user_id, _user_id) /\ r.role = _role

\* has_role called by a requester: SECURITY DEFINER, so the body reads
\* user_roles as the function's owner, past the caller's policies
HasRoleAsDefiner(uid, _user_id, _role) == has_role(_user_id, _role)

\* rpc('has_role', {_user_id, _role}): the answer holds _user_id when the
\* function returned true and nothing when it returned false
CallHasRole(uid, _user_id, _role) ==
  /\ last' = AnswerTo("has_role", uid, "none",
                      IF HasRoleAsDefiner(uid, _user_id, _role) THEN {_user_id} ELSE {},
                      [Arg(_user_id, 0, 0, NULL) EXCEPT !.role = _role])
  /\ UNCHANGED <<dbVars, uiVars, pageVars>>


\* INSERT INTO profiles: no policy admits the row; past the policy the primary
\* key, UNIQUE (student_id) and the foreign key to auth.users would apply
InsertProfileError(uid, row) ==
  IF ~CanInsertProfile(uid, row) THEN "rls"
  ELSE IF row.id \in Ids(profiles) THEN "unique"
  ELSE IF row.student_id # NULL /\ \E p \in profiles : p.student_id = row.student_id
       THEN "unique"
  ELSE IF row.id \notin users THEN "fk"
  ELSE "none"

InsertProfile(uid, id, student_id) ==
  LET row == ProfileRow(id, EmailOf(id), student_id)
      err == InsertProfileError(uid, row)
  IN /\ profiles' = IF err = "none" THEN profiles \cup {row} ELSE profiles
     /\ last' = AnswerTo("insert_profile", uid, err, IF err = "none" THEN {id} ELSE {},
                         [Arg(id, 0, 0, NULL) EXCEPT !.student_no = student_id])
     /\ UNCHANGED <<users, sessions, user_roles, internships, applications, now,
                    nextPosting, uiVars, pageVars>>

\* DELETE FROM profiles WHERE id = ...: rows the requester may see and delete;
\* user_roles.user_id and applications.student_id are ON DELETE CASCADE
DeleteProfileTargets(uid, id) ==
  {p \in profiles : p.id = id /\ CanDeleteProfile(uid, p) /\ CanSelectProfile(uid, p)}

DeleteProfile(uid, id) ==
  LET targets == DeleteProfileTargets(uid, id)
  IN /\ profiles' = profiles \ targets
     /\ user_roles' = {r \in user_roles : r.user_id \notin Ids(targets)}
     /\ applications' = {a \in applications : a.student_id \notin Ids(targets)}
     /\ last' = AnswerTo("delete_profile", uid, "none", Ids(targets), Arg(id, 0, 0, NULL))
     /\ UNCHANGED <<users, sessions, internships, now, nextPosting, uiVars, pageVars>>

\* INSERT INTO user_roles (user_id, role): past the policy, UNIQUE (user_id,
\* role) and the foreign key to profiles would apply
InsertUserRoleError(uid, row) ==
  IF ~CanInsertUserRole(uid, row) THEN "rls"
  ELSE IF row \in user_roles THEN "unique"
  ELSE IF row.user_id \notin Ids(profiles) THEN "fk"
  ELSE "none"

InsertUserRole(uid, user_id, role) ==
  LET row == [user_id |-> user_id, role |-> role]
      err == InsertUserRoleError(uid, row)
  IN /\ user_roles' = IF err = "none" THEN user_roles \cup {row} ELSE user_roles
     /\ last' = AnswerTo("insert_user_role", uid, err,
                         IF err = "none" THEN {user_id} ELSE {},
                         [Arg(user_id, 0, 0, NULL) EXCEPT !.role = role])
     /\ UNCHANGED <<users, sessions, profiles, internships, applications, now,
                    nextPosting, uiVars, pageVars>>

WriteUserRoleTargets(uid, user_id) ==
  {r \in user_roles : r.user_id = user_id /\ CanSelectUserRole(uid, r)}

\* UPDATE user_roles SET role = ... WHERE user_id = ...
UpdateUserRole(uid, user_id, role) ==
  LET targets == {r \in WriteUserRoleTargets(uid, user_id) : CanUpdateUserRole(uid, r)}
  IN /\ user_roles' = (user_roles \ targets) \cup {[r EXCEPT !.role = role] : r \in targets}
     /\ last' = AnswerTo("update_user_role", uid, "none", {r.user_id : r \in targets},
                         [Arg(user_id, 0, 0, NULL) EXCEPT !.role = role])
     /\ UNCHANGED <<users, sessions, profiles, internships, applications, now,
                    nextPosting, uiVars, pageVars>>

\* DELETE FROM user_roles WHERE user_id = ...
DeleteUserRole(uid, user_id) ==
  LET targets == {r \in WriteUserRoleTargets(uid, user_id) : CanDeleteUserRole(uid, r)}
  IN /\ user_roles' = user_roles \ targets
     /\ last' = AnswerTo("delete_user_role", uid, "none", {r.user_id : r \in targets},
                         Arg(user_id, 0, 0, NULL))
     /\ UNCHANGED <<users, sessions, profiles, internships, applications, now,
                    nextPosting, uiVars, pageVars>>

\* ---------------------------------------------------------------- internships
SelectInternships(uid) == {i \in internships : CanSelectInternship(uid, i)}

ReadInternships(uid) ==
  /\ last' = Answer("select_internships", uid, "none", Ids(SelectInternships(uid)))
  /\ UNCHANGED <<dbVars, uiVars, pageVars>>

\* INSERT INTO internships: the new row must pass the FOR ALL policy
InsertInternship(uid, is_active) ==
  LET row == InternshipRow(nextPosting + 1, is_active)
      err == IF CanWriteInternship(uid, row) THEN "none" ELSE "rls"
  IN /\ nextPosting < MaxPostings
     /\ IF err = "none"
        THEN /\ internships' = internships \cup {row}
             /\ nextPosting' = nextPosting + 1
        ELSE UNCHANGED <<internships, nextPosting>>
     /\ last' = Answer("insert_internship", uid, err, IF err = "none" THEN {row.id} ELSE {})
     /\ UNCHANGED <<users, sessions, profiles, user_roles, applications, now, uiVars, pageVars>>

WriteInternshipTargets(uid, id) ==
  {i \in internships : i.id = id /\ CanWriteInternship(uid, i) /\ CanSelectInternship(uid, i)}

UpdateInternship(uid, id, is_active) ==
  LET targets == WriteInternshipTargets(uid, id)
  IN /\ internships' = (internships \ targets)
                         \cup {[i EXCEPT !.is_active = is_active] : i \in targets}
     /\ last' = Answer("update_internship", uid, "none", Ids(targets))
     /\ UNCHANGED <<users, sessions, profiles, user_roles, applications, now,
                    nextPosting, uiVars, pageVars>>

\* DELETE FROM internships: applications.internship_id is ON DELETE CASCADE
DeleteInternship(uid, id) ==
  LET targets == WriteInternshipTargets(uid, id)
  IN /\ internships' = internships \ targets
     /\ applications' = {a \in applications : a.internship_id \notin Ids(targets)}
     /\ last' = Answer("delete_internship", uid, "none", Ids(targets))
     /\ UNCHANGED <<users, sessions, profiles, user_roles, now, nextPosting, uiVars, pageVars>>

\* ---------------------------------------------------------------- applications
SelectApplications(uid) == {a \in applications : CanSelectApplication(uid, a)}

ReadApplications(uid) ==
  /\ last' = Answer("select_applications", uid, "none", Ids(SelectApplications(uid)))
  /\ UNCHANGED <<dbVars, uiVars, pageVars>>

\* the insert as it would be without UNIQUE (internship_id, student_id)
InsertApplicationErrorNoUnique(uid, row) ==
  IF ~CanInsertApplication(uid, row) THEN "rls"
  ELSE IF ~StatusCheck(row.status) THEN "check"
  ELSE IF row.internship_id \notin Ids(internships) \/ row.student_id \notin Ids(profiles)
       THEN "fk"
  ELSE "none"

\* the error of INSERT INTO applications, in the order the datastore checks:
\* the policy's WITH CHECK, the CHECK constraint, the UNIQUE index, the foreign keys
InsertApplicationError(uid, row) ==
  IF ~CanInsertApplication(uid, row) THEN "rls"
  ELSE IF ~StatusCheck(row.status) THEN "check"
  ELSE IF \E a \in applications :
            a.internship_id = row.internship_id /\ a.student_id = row.student_id
       THEN "unique"
  ELSE IF row.internship_id \notin Ids(internships) \/ row.student_id \notin Ids(profiles)
       THEN "fk"
  ELSE "none"

\* INSERT INTO applications (internship_id, student_id, status): id, feedback,
\* applied_at and updated_at take their defaults
DoInsertApplication(op, uid, internship_id, student_id, status) ==
  LET t == now + 1
      row == ApplicationRow(t, internship_id, student_id, status, NULL, t, t)
      err == InsertApplicationError(uid, row)
  IN /\ IF err = "none"
        THEN /\ applications' = applications \cup {row}
             /\ now' = t
        ELSE UNCHANGED <<applications, now>>
     /\ last' = AnswerTo(op, uid, err, IF err = "none" THEN {row.id} ELSE {},
                         Arg(0, internship_id, student_id, status))

InsertApplication(uid, internship_id, student_id, status) ==
  /\ now < MaxTime
  /\ DoInsertApplication("insert_application", uid, internship_id, student_id, status)
  /\ UNCHANGED <<users, sessions, profiles, user_roles, internships, nextPosting, uiVars, pageVars>>

\* the rows UPDATE applications .. WHERE id = .. reaches
UpdateApplicationTargets(uid, id) ==
  {a \in applications : a.id = id /\ CanUpdateApplication(uid, a)
                                  /\ CanSelectApplication(uid, a)}

UpdateApplicationError(uid, id, status) ==
  IF UpdateApplicationTargets(uid, id) # {} /\ ~StatusCheck(status) THEN "check" ELSE "none"

\* UPDATE applications SET status = .., feedback = .. WHERE id = ..;
\* the BEFORE UPDATE trigger refreshes updated_at in the same statement
DoUpdateApplication(op, uid, id, status, feedback) ==
  LET t == now + 1
      targets == UpdateApplicationTargets(uid, id)
      err == UpdateApplicationError(uid, id, status)
      written == {update_application_timestamp(
                    [a EXCEPT !.status = status, !.feedback = feedback], t) : a \in targets}
  IN /\ IF err = "none" /\ targets # {}
        THEN /\ applications' = (applications \ targets) \cup written
             /\ now' = t
        ELSE UNCHANGED <<applications, now>>
     /\ last' = AnswerTo(op, uid, err, IF err = "none" THEN Ids(targets) ELSE {},
                         [Arg(id, 0, 0, status) EXCEPT !.feedback = feedback])

UpdateApplication(uid, id, status, feedback) ==
  /\ now < MaxTime
  /\ DoUpdateApplication("update_application", uid, id, status, feedback)
  /\ UNCHANGED <<users, sessions, profiles, user_roles, internships, nextPosting, uiVars, pageVars>>

\* DELETE FROM applications WHERE id = ...: rows the requester may see and delete
DeleteApplicationTargets(uid, id) ==
  {a \in applications : a.id = id /\ CanDeleteApplication(uid, a)
                                  /\ CanSelectApplication(uid, a)}

DeleteApplication(uid, id) ==
  LET targets == DeleteApplicationTargets(uid, id)
  IN /\ applications' = applications \ targets
     /\ last' = AnswerTo("delete_application", uid, "none", Ids(targets), Arg(id, 0, 0, NULL))
     /\ UNCHANGED <<users, sessions, profiles, user_roles, internships, now,
                    nextPosting, uiVars, pageVars>>

\* ---------------------------------------------------------------- clients
\* a handler suspended at an await: which handler, the signed-in user, the row
\* it is about, the values it sends, and the slot that tells two equal calls apart
FreeSlot ==
  CHOOSE n \in 1..MaxInflight :
    /\ \A r \in inflight : r.n # n
    /\ \A m \in 1..(n - 1) : \E r \in inflight : r.n = m

Request(h, uid, app, status, feedback, to) ==
  [h |-> h, uid |-> uid, app |-> app, status |-> status, feedback |-> feedback,
   to |-> to, n |-> FreeSlot, mounted |-> TRUE, meta |-> NoArg]

\* StudentDashboard.handleApply up to its await: `if (!user) return`, then the
\* insert is sent; the list the button comes from may be stale
HandleApply(uid, internshipId) ==
  /\ uid \in sessions
  /\ internshipId \in 1..nextPosting
  /\ Cardinality(inflight) < MaxInflight
  /\ inflight' = inflight \cup {Request("apply", uid, internshipId, "pending", NULL, NULL)}
  /\ last' = Answer("call_handleApply", uid, "none", {})
  /\ UNCHANGED <<dbVars, seen, notified, loading, processingId, pageVars>>

\* handleApply from the insert's answer on: the toast is the answer's error
HandleApplyAnswer(r) ==
  /\ r.h = "apply"
  /\ now < MaxTime
  /\ DoInsertApplication("handleApply", r.uid, r.app, r.uid, r.status)
  /\ inflight' = inflight \ {r}
  /\ UNCHANGED <<users, sessions, profiles, user_roles, internships, nextPosting,
                 seen, notified, loading, processingId, pageVars>>

\* ProtectedRoute with requiredRole 'admin': the children are rendered
ProtectedRoute(uid, requiredRole) == uid \in sessions /\ has_role(uid, requiredRole)

\* the handlers of a dashboard that is being replaced by a new mount: a pending
\* select only feeds the old component and is dropped; an update or an email
\* call keeps running, detached from the new component's state
Detached(uid) ==
  {[r EXCEPT !.mounted = FALSE] :
     r \in {q \in inflight : q.uid = uid /\ q.h \in {"update", "email"}}}

\* AdminDashboard mounts (inside ProtectedRoute): useState gives an empty list,
\* loading = true and processingId = null, and useEffect calls
\* fetchApplications, which runs up to its await
FetchApplications(uid) ==
  /\ ProtectedRoute(uid, "admin")
  /\ Cardinality({q \in inflight : ~(q.uid = uid /\ q.h = "fetch")}) < MaxInflight
  /\ seen' = [seen EXCEPT ![uid] = {}]
  /\ loading' = [loading EXCEPT ![uid] = TRUE]
  /\ processingId' = [processingId EXCEPT ![uid] = 0]
  /\ LET others == {q \in inflight : q.uid # uid \/ q.h = "apply"} \cup Detached(uid)
         n == CHOOSE k \in 1..MaxInflight :
                /\ \A q \in others : q.n # k
                /\ \A m \in 1..(k - 1) : \E q \in others : q.n = m
     IN inflight' = others \cup {[h |-> "fetch", uid |-> uid, app |-> 0, status |-> NULL,
                                   feedback |-> NULL, to |-> NULL, n |-> n,
                                   mounted |-> TRUE, meta |-> NoArg]}
  /\ last' = Answer("call_fetchApplications", uid, "none", {})
  /\ UNCHANGED <<dbVars, notified, pageVars>>

\* the embedded resource as it would be if the profile were read past the policy
EmbeddedEmailUnfiltered(uid, a) ==
  LET ps == {p \in profiles : p.id = a.student_id}
  IN IF ps = {} THEN NULL ELSE (CHOOSE p \in ps : TRUE).email

\* the embedded resource profiles(email) of an application row: null when the
\* requester's SELECT policy on profiles hides the profile
EmbeddedEmail(uid, a) ==
  LET ps == {p \in SelectProfiles(uid) : p.id = a.student_id}
  IN IF ps = {} THEN NULL ELSE (CHOOSE p \in ps : TRUE).email

FetchedRows(uid) ==
  {[id |-> a.id, status |-> a.status, email |-> EmbeddedEmail(uid, a)] :
     a \in SelectApplications(uid)}

\* fetchApplications from the select's answer on: with an error, a toast and
\* `return`, which leaves loading as it is; else setApplications(data),
\* setLoading(false)
FetchApplicationsAnswer(r, error) ==
  /\ r.h = "fetch"
  /\ IF error
     THEN /\ last' = Answer("fetchApplications", r.uid, "Error fetching applications", {})
          /\ UNCHANGED <<seen, loading>>
     ELSE /\ seen' = [seen EXCEPT ![r.uid] = FetchedRows(r.uid)]
          /\ loading' = [loading EXCEPT ![r.uid] = FALSE]
          /\ last' = Answer("fetchApplications", r.uid, "none", Ids(SelectApplications(r.uid)))
  /\ inflight' = inflight \ {r}
  /\ UNCHANGED <<dbVars, notified, processingId, pageVars>>

\* the dashboard renders application.profiles.email of every row: a row whose
\* embedded profile is null makes the render throw, and no button exists;
\* while loading the spinner replaces the list
Rendered(uid) == ~loading[uid] /\ \A row \in seen[uid] : row.email # NULL

\* disabled={processingId === application.id}
Processing(uid, id) == processingId[uid] = id

\* AdminDashboard.handleStatusUpdate up to its first await; the buttons exist
\* only on rows shown as pending and are disabled while processingId is the row
HandleStatusUpdate(uid, row, newStatus, fb) ==
  /\ uid \in sessions
  /\ row \in seen[uid]
  /\ Rendered(uid)
  /\ row.status = "pending"
  /\ ~Processing(uid, row.id)
  /\ Cardinality(inflight) < MaxInflight
  /\ processingId' = [processingId EXCEPT ![uid] = row.id]
  /\ inflight' = inflight \cup {Request("update", uid, row.id, newStatus, fb, row.email)}
  /\ last' = Answer("call_handleStatusUpdate", uid, "none", {})
  /\ UNCHANGED <<dbVars, seen, notified, loading, pageVars>>

\* `finally { setProcessingId(null) }`, a no-op once the component is unmounted
Finally(r) ==
  IF r.mounted THEN [processingId EXCEPT ![r.uid] = 0] ELSE processingId

\* handleStatusUpdate from the update's answer on: `if (updateError) throw`,
\* else the email function is invoked
HandleStatusUpdateAnswer(r, network) ==
  /\ r.h = "update"
  /\ now < MaxTime
  /\ IF network
     THEN /\ DoUpdateApplication("handleStatusUpdate", r.uid, r.app, r.status, r.feedback)
          /\ inflight' = IF last'.err = "none"
                         THEN (inflight \ {r}) \cup {[r EXCEPT !.h = "email"]}
                         ELSE inflight \ {r}
          /\ processingId' = IF last'.err = "none" THEN processingId ELSE Finally(r)
     ELSE /\ last' = Answer("handleStatusUpdate", r.uid, "network", {})
          /\ inflight' = inflight \ {r}
          /\ processingId' = Finally(r)
          /\ UNCHANGED <<applications, now>>
  /\ UNCHANGED <<users, sessions, profiles, user_roles, internships, nextPosting,
                 seen, notified, loading, pageVars>>

\* the body sent to send-application-email: feedback[applicationId] || ''
EmailBody(r) ==
  [app |-> r.app, to |-> r.to, status |-> r.status,
   feedback |-> IF r.feedback = NULL THEN "" ELSE r.feedback, uid |-> r.uid]

\* the select fetchApplications() sends at the end of handleStatusUpdate
Refetch(r) ==
  [r EXCEPT !.h = "fetch", !.app = 0, !.status = NULL, !.feedback = NULL, !.to = NULL]

\* the handler as it would be if a failed notification were sent again
HandleStatusUpdateEmailRetry(r, delivered) ==
  /\ r.h = "email"
  /\ notified' = notified \cup {EmailBody(r)}
  /\ inflight' = IF ~delivered THEN inflight
                 ELSE IF r.mounted THEN (inflight \ {r}) \cup {Refetch(r)}
                 ELSE inflight \ {r}
  /\ loading' = IF r.mounted /\ delivered THEN [loading EXCEPT ![r.uid] = TRUE] ELSE loading
  /\ processingId' = IF delivered THEN Finally(r) ELSE processingId
  /\ last' = Answer("send_application_email", r.uid,
                    IF delivered THEN "none" ELSE "email", {r.app})
  /\ UNCHANGED <<dbVars, seen, pageVars>>

\* handleStatusUpdate from the email function's answer on: a toast either way,
\* then fetchApplications() is called and not awaited (setLoading(true), the
\* select is sent), then `finally`; a detached handler's select feeds nothing
HandleStatusUpdateEmailAnswer(r, delivered) ==
  /\ r.h = "email"
  /\ notified' = notified \cup {EmailBody(r)}
  /\ inflight' = IF r.mounted THEN (inflight \ {r}) \cup {Refetch(r)} ELSE inflight \ {r}
  /\ loading' = IF r.mounted THEN [loading EXCEPT ![r.uid] = TRUE] ELSE loading
  /\ processingId' = Finally(r)
  /\ last' = Answer("send_application_email", r.uid,
                    IF delivered THEN "none" ELSE "email", {r.app})
  /\ UNCHANGED <<dbVars, seen, pageVars>>

\* ---------------------------------------------------------------- Auth page
\* String.prototype.trim, which zod's .trim() applies before the checks
RECURSIVE TrimStart(_)
TrimStart(s) == IF s # <<>> /\ Head(s) = " " THEN TrimStart(Tail(s)) ELSE s

RECURSIVE TrimEnd(_)
TrimEnd(s) ==
  IF s # <<>> /\ s[Len(s)] = " " THEN TrimEnd(SubSeq(s, 1, Len(s) - 1)) ELSE s

Trim(s) == TrimEnd(TrimStart(s))

Letters == {"a", "b", "c", "o"}

Digits == {"1", "2", "3", "4", "5", "6"}

\* the part before the @: characters of the class, no dot first or last, no
\* two dots in a row
EmailLocalOk(l) ==
  /\ Len(l) >= 1
  /\ \A i \in 1..Len(l) : l[i] \in Letters \cup Digits \cup {".", "_", "+", "-"}
  /\ l[1] # "." /\ l[Len(l)] # "."
  /\ \A i \in 1..(Len(l) - 1) : ~(l[i] = "." /\ l[i + 1] = ".")

\* the part after the @: labels that start with a letter or digit, each
\* followed by a dot, then a last label of two or more letters
EmailDomainOk(d) ==
  LET dots == {i \in 1..Len(d) : d[i] = "."}
      lastDot == CHOOSE i \in dots : \A j \in dots : j <= i
  IN /\ dots # {}
     /\ \A i \in 1..Len(d) : d[i] \in Letters \cup Digits \cup {".", "-"}
     /\ d[1] \in Letters \cup Digits
     /\ \A i \in dots : i < lastDot => d[i + 1] \in Letters \cup Digits
     /\ Len(d) - lastDot >= 2
     /\ \A i \in (lastDot + 1)..Len(d) : d[i] \in Letters

\* zod's .email(): one @ between a local part and a domain
IsEmail(s) ==
  LET ats == {i \in 1..Len(s) : s[i] = "@"}
      at == CHOOSE i \in ats : TRUE
  IN /\ Cardinality(ats) = 1
     /\ EmailLocalOk(SubSeq(s, 1, at - 1))
     /\ EmailDomainOk(SubSeq(s, at + 1, Len(s)))

\* the issues signupSchema.parse collects, in the order of the schema's keys
SignupIssuesNameUntrimmed(email, password, fullName) ==
  (IF IsEmail(Trim(email)) THEN <<>> ELSE <<"Invalid email address">>)
    \o (IF Len(password) >= 6 THEN <<>> ELSE <<"Password must be at least 6 characters">>)
    \o (IF Len(fullName) >= 1 THEN <<>> ELSE <<"Full name is required">>)

SignupIssues(email, password, fullName) ==
  (IF IsEmail(Trim(email)) THEN <<>> ELSE <<"Invalid email address">>)
    \o (IF Len(password) >= 6 THEN <<>> ELSE <<"Password must be at least 6 characters">>)
    \o (IF Len(Trim(fullName)) >= 1 THEN <<>> ELSE <<"Full name is required">>)

\* the issues signinSchema.parse collects
SigninIssuesAnyEmail(email, password) ==
  IF Len(password) >= 1 THEN <<>> ELSE <<"Password is required">>

SigninIssues(email, password) ==
  (IF IsEmail(Trim(email)) THEN <<>> ELSE <<"Invalid email address">>)
    \o (IF Len(password) >= 1 THEN <<>> ELSE <<"Password is required">>)

\* the form values a handler read, kept with its answer
FormArg(email, password, fullName) ==
  [NoArg EXCEPT !.email = email, !.password = password, !.fullName = fullName]

\* Auth.handleSignUp up to its await: setLoading(true), signupSchema.parse;
\* a ZodError is caught, its first message toasted, and `finally` sets
\* loading back; otherwise supabase.auth.signUp is sent with the untrimmed
\* values and the metadata (student_id only for students)
HandleSignUp(email, password, fullName, userType, studentId) ==
  LET issues == SignupIssues(email, password, fullName)
      meta == [FormArg(email, password, fullName) EXCEPT
                 !.role = userType,
                 !.student_no = IF userType = "student" THEN studentId ELSE NULL]
  IN /\ ~authLoading
     /\ IF issues # <<>>
        THEN /\ last' = AnswerTo("call_handleSignUp", NoUid, issues[1], {}, meta)
             /\ UNCHANGED <<inflight, authLoading>>
        ELSE /\ Cardinality(inflight) < MaxInflight
             /\ inflight' = inflight \cup
                  {[Request("signup", NoUid, 0, NULL, NULL, NULL) EXCEPT !.meta = meta]}
             /\ authLoading' = TRUE
             /\ last' = AnswerTo("call_handleSignUp", NoUid, "none", {}, meta)
     /\ UNCHANGED <<dbVars, seen, notified, loading, processingId, route, auth>>

\* handleSignUp from signUp's answer on: the provider creates the principal or
\* answers with an error; a toast either way, then `finally`
HandleSignUpAnswer(r, answered) ==
  /\ r.h = "signup"
  /\ IF answered
     THEN DoCreateUser(r.meta.role, r.meta.student_no)
     ELSE /\ last' = AnswerTo("signup", NoUid, "network", {}, r.meta)
          /\ UNCHANGED <<users, sessions, profiles, user_roles>>
  /\ inflight' = inflight \ {r}
  /\ authLoading' = FALSE
  /\ route' = IF last'.err # "none" THEN route
              ELSE IF r.meta.role = "admin" THEN "/admin" ELSE "/student"
  /\ UNCHANGED <<internships, applications, now, nextPosting, seen, notified,
                 loading, processingId, auth>>

\* Auth.handleSignIn up to its await
HandleSignIn(email, password) ==
  LET issues == SigninIssues(email, password)
      meta == FormArg(email, password, <<>>)
  IN /\ ~authLoading
     /\ IF issues # <<>>
        THEN /\ last' = AnswerTo("call_handleSignIn", NoUid, issues[1], {}, meta)
             /\ UNCHANGED <<inflight, authLoading>>
        ELSE /\ Cardinality(inflight) < MaxInflight
             /\ inflight' = inflight \cup
                  {[Request("signin", NoUid, 0, NULL, NULL, NULL) EXCEPT !.meta = meta]}
             /\ authLoading' = TRUE
             /\ last' = AnswerTo("call_handleSignIn", NoUid, "none", {}, meta)
     /\ UNCHANGED <<dbVars, seen, notified, loading, processingId, route, auth>>

\* handleSignIn from signInWithPassword's answer on: the credentials are those
\* of principal uid, or of nobody (uid = NoUid) and the provider answers with
\* an error; then the role is read, a toast shown, and `finally`
HandleSignInAnswer(r, uid) ==
  /\ r.h = "signin"
  /\ uid \in users \cup {NoUid}
  /\ last' = AnswerTo("signin", uid, IF uid = NoUid THEN "credentials" ELSE "none",
                      {q.user_id : q \in SelectUserRoles(uid)}, r.meta)
  /\ inflight' = inflight \ {r}
  /\ authLoading' = FALSE
  /\ route' = IF uid = NoUid THEN route
              ELSE IF "admin" \in {q.role : q \in SelectUserRoles(uid)} THEN "/admin"
              ELSE "/student"
  /\ UNCHANGED <<dbVars, seen, notified, loading, processingId, auth>>

\* ---------------------------------------------------------------- send-application-email
SubjectAccepted == "Your Internship Application Has Been Accepted!"

SubjectRejected == "Update on Your Internship Application"

\* const subject = status === 'accepted' ? ... : ...
EmailSubject(status) == IF status = "accepted" THEN SubjectAccepted ELSE SubjectRejected

\* const message = status === 'accepted' ? ... : ...; the feedback block is
\* left out when feedback is falsy (absent or the empty text)
EmailHtml(status, feedback) ==
  IF status = "accepted"
  THEN (IF feedback \in {NULL, ""} THEN "Congratulations!"
                                   ELSE "Congratulations! Message from Admin")
  ELSE (IF feedback \in {NULL, ""} THEN "Application Update"
                                   ELSE "Application Update Feedback")

\* the function's handler for a POST with body {to, status, feedback}: the
\* message is composed and posted to the mail provider; the response is 200
\* when the provider answered ok and 500 when it did not. The answer holds the
\* provider's message id when it accepted the message.
SendApplicationEmail(uid, to, status, feedback, providerOk) ==
  /\ last' = AnswerTo("send-application-email", uid,
                      IF providerOk THEN "none" ELSE "500",
                      IF providerOk THEN {1} ELSE {},
                      [NoArg EXCEPT !.to = to, !.status = status, !.feedback = feedback,
                                    !.subject = EmailSubject(status),
                                    !.html = EmailHtml(status, feedback)])
  /\ UNCHANGED <<dbVars, uiVars, pageVars>>

\* the toast handleStatusUpdate shows for an answer: the catch block's message
\* for a failed update, the warning for a failed email, the success message
\* otherwise; NULL while no toast is shown
ToastUpdateError == "Error updating application"

ToastEmailFailed == "Status updated but email notification failed"

ToastSuccess == "Application ${newStatus} and email sent!"

Toast(answer) ==
  IF answer.op = "handleStatusUpdate" /\ answer.err # "none" THEN ToastUpdateError
  ELSE IF answer.op = "send_application_email" /\ answer.err # "none" THEN ToastEmailFailed
  ELSE IF answer.op = "send_application_email" THEN ToastSuccess
  ELSE NULL

\* ---------------------------------------------------------------- routes
Routes == {"/", "/auth", "/admin", "/student"}

\* the requiredRole each route hands to its ProtectedRoute; NULL: the page is
\* not wrapped
RequiredRole(path) ==
  IF path = "/admin" THEN "admin" ELSE IF path = "/student" THEN "student" ELSE NULL

\* the contexts useAuth can hand out: still loading, nobody signed in, or the
\* session's user with the role its own user_roles read returns, none when the
\* read returns no row
AuthContext(uid) ==
  IF uid = NoUid
  THEN [user |-> NoUid, loading |-> FALSE, userRole |-> NULL]
  ELSE [user |-> uid, loading |-> FALSE,
        userRole |-> IF SelectUserRoles(uid) = {} THEN NULL
                     ELSE (CHOOSE q \in SelectUserRoles(uid) : TRUE).role]

\* useAuth settling: on the signed-out state, or on a session
UseAuthResolve(uid) ==
  /\ uid = NoUid \/ uid \in sessions
  /\ auth' = AuthContext(uid)
  /\ auth' # auth
  /\ last' = Answer("useAuth", uid, "none", {})
  /\ UNCHANGED <<dbVars, uiVars, authLoading, route>>

\* the dashboard a role is sent to
DashboardOf(userRole) == IF userRole = "admin" THEN "/admin" ELSE "/student"

\* ProtectedRoute's effect always sending a mismatched role to /student
ProtectedRouteTargetStudentOnly(ctx, requiredRole, here) ==
  IF ctx.loading THEN here
  ELSE IF ctx.user = NoUid THEN "/auth"
  ELSE IF requiredRole # NULL /\ ctx.userRole # requiredRole THEN "/student"
  ELSE here

\* ProtectedRoute's effect: where it navigates to; `here` when it does not
ProtectedRouteTarget(ctx, requiredRole, here) ==
  IF ctx.loading THEN here
  ELSE IF ctx.user = NoUid THEN "/auth"
  ELSE IF requiredRole # NULL /\ ctx.userRole # requiredRole THEN DashboardOf(ctx.userRole)
  ELSE here

\* ProtectedRoute's render that shows the children whenever a user is present
ProtectedRouteRenderAnyRole(ctx, requiredRole) ==
  IF ctx.loading THEN "spinner"
  ELSE IF ctx.user = NoUid THEN "nothing"
  ELSE "children"

\* ProtectedRoute's render
ProtectedRouteRender(ctx, requiredRole) ==
  IF ctx.loading THEN "spinner"
  ELSE IF ctx.user = NoUid \/ (requiredRole # NULL /\ ctx.userRole # requiredRole)
       THEN "nothing"
  ELSE "children"

\* Index's effect: a signed-in visitor of the landing page is sent to a dashboard
IndexTarget(ctx, here) ==
  IF ~ctx.loading /\ ctx.user # NoUid THEN DashboardOf(ctx.userRole) ELSE here

\* the Auth page's mount effect: a visitor with a session is sent to the
\* dashboard of the role the user_roles read returns, /student when it returns none
AuthPageTarget(ctx, here) ==
  IF ctx.user # NoUid /\ ctx.user \in sessions
  THEN DashboardOf(IF \E q \in SelectUserRoles(ctx.user) : q.role = "admin"
                   THEN "admin" ELSE "student")
  ELSE here

\* where the page mounted at `path` navigates to under the context `ctx`
RouteTarget(ctx, path) ==
  IF path = "/" THEN IndexTarget(ctx, path)
  ELSE IF path = "/auth" THEN AuthPageTarget(ctx, path)
  ELSE ProtectedRouteTarget(ctx, RequiredRole(path), path)

\* what the page mounted at `path` shows: the landing page and the Auth page
\* always show themselves
RouteRender(ctx, path) ==
  IF path \in {"/", "/auth"} THEN "children"
  ELSE ProtectedRouteRender(ctx, RequiredRole(path))

\* the visitor opening a location
Visit(path) ==
  /\ path # route
  /\ route' = path
  /\ last' = Answer("visit", auth.user, "none", {})
  /\ UNCHANGED <<dbVars, uiVars, authLoading, auth>>

\* the mounted page's effect navigating away
Navigate ==
  /\ RouteTarget(auth, route) # route
  /\ route' = RouteTarget(auth, route)
  /\ last' = Answer(IF route = "/" THEN "Index.navigate"
                    ELSE IF route = "/auth" THEN "Auth.navigate"
                    ELSE "ProtectedRoute.navigate", auth.user, "none", {})
  /\ UNCHANGED <<dbVars, uiVars, authLoading, auth>>

\* ---------------------------------------------------------------- Next
\* the identity provider creating and deleting principals
IdentityNext ==
  \/ \E m \in MetaRoles, s \in StudentIds : CreateUser(m, s)
  \/ \E u \in UserIds : DeleteUser(u)

\* table operations on profiles and user_roles, by any requester
ProfileNext ==
  \/ \E u \in Requesters : ReadProfiles(u)
  \/ \E u \in Requesters, id \in UserIds, e \in Emails : UpdateProfile(u, id, e)
  \/ \E u \in Requesters : ReadUserRoles(u)

\* table operations on internships, by any requester
InternshipNext ==
  \/ \E u \in Requesters : ReadInternships(u)
  \/ \E u \in Requesters, b \in ActiveInputs : InsertInternship(u, b)
  \/ \E u \in Requesters, id \in PostingIds, b \in ActiveInputs : UpdateInternship(u, id, b)
  \/ \E u \in Requesters, id \in PostingIds : DeleteInternship(u, id)

\* table operations on applications, by any requester
ApplicationNext ==
  \/ \E u \in Requesters : ReadApplications(u)
  \/ \E u \in Requesters, i \in PostingIds, s \in UserIds, st \in StatusInputs :
       InsertApplication(u, i, s, st)
  \/ \E u \in Requesters, id \in AppIds, st \in StatusInputs, fb \in FeedbackInputs :
       UpdateApplication(u, id, st, fb)

\* StudentDashboard
StudentNext ==
  \/ \E u \in UserIds, i \in PostingIds : HandleApply(u, i)
  \/ \E r \in inflight : HandleApplyAnswer(r)

\* AdminDashboard
AdminNext ==
  \/ \E u \in UserIds : FetchApplications(u)
  \/ \E r \in inflight, error \in BOOLEAN : FetchApplicationsAnswer(r, error)
  \/ \E u \in UserIds, st \in {"accepted", "rejected"}, fb \in FeedbackInputs :
       \E row \in seen[u] : HandleStatusUpdate(u, row, st, fb)
  \/ \E r \in inflight, network \in BOOLEAN : HandleStatusUpdateAnswer(r, network)
  \/ \E r \in inflight, delivered \in BOOLEAN : HandleStatusUpdateEmailAnswer(r, delivered)

\* the Auth page: both forms and the provider's answers
AuthNext ==
  \/ \E e \in EmailInputs, pw \in PasswordInputs, n \in NameInputs, t \in UserTypes :
       HandleSignUp(e, pw, n, t, "2400030001")
  \/ \E r \in inflight, answered \in BOOLEAN : HandleSignUpAnswer(r, answered)
  \/ \E e \in EmailInputs, pw \in PasswordInputs : HandleSignIn(e, pw)
  \/ \E r \in inflight, u \in UserIds \cup {NoUid} : HandleSignInAnswer(r, u)

\* signups that leave the optional student id out, and deletions
SignupNext ==
  \/ \E m \in MetaRoles : CreateUser(m, NULL)
  \/ \E u \in UserIds : DeleteUser(u)

\* the cascade of a deleted internship, by any requester
CascadeNext == \E u \in Requesters, id \in PostingIds : DeleteInternship(u, id)

\* table operations for which the schema has no policy, by any requester
DenyNext ==
  \/ \E u \in Requesters, id \in UserIds : InsertProfile(u, id, NULL)
  \/ \E u \in Requesters, id \in UserIds : DeleteProfile(u, id)
  \/ \E u \in Requesters, id \in UserIds, r \in app_role : InsertUserRole(u, id, r)
  \/ \E u \in Requesters, id \in UserIds, r \in app_role : UpdateUserRole(u, id, r)
  \/ \E u \in Requesters, id \in UserIds : DeleteUserRole(u, id)

\* has_role called directly, by any requester, for any principal or none
RpcNext ==
  \E u \in Requesters, id \in UserIds \cup {NoUid}, r \in app_role : CallHasRole(u, id, r)

\* principals, profiles and role assignments
NextIdentity == IdentityNext \/ ProfileNext \/ DenyNext \/ RpcNext
SpecIdentity == Init /\ [][NextIdentity]_vars

\* principals and internship postings
NextInternships == IdentityNext \/ InternshipNext
SpecInternships == Init /\ [][NextInternships]_vars

\* principals and the applications table
Next == SignupNext \/ ApplicationNext \/ CascadeNext
Spec == Init /\ [][Next]_vars

\* the email function called directly, by any requester
MailNext ==
  \E u \in Requesters, to \in Emails, st \in StatusInputs,
     fb \in FeedbackInputs \cup {""}, ok \in BOOLEAN :
    SendApplicationEmail(u, to, st, fb, ok)

\* principals and the email function
NextMail == SignupNext \/ MailNext
SpecMail == Init /\ [][NextMail]_vars

\* the pages' redirects, under every context useAuth hands out
RouteNext ==
  \/ \E u \in UserIds \cup {NoUid} : UseAuthResolve(u)
  \/ \E path \in Routes : Visit(path)
  \/ Navigate

\* principals and the route guards
NextRoutes == SignupNext \/ RouteNext
SpecRoutes == Init /\ [][NextRoutes]_vars

\* the Auth page and the identity provider
NextAuth == AuthNext \/ (\E u \in UserIds : DeleteUser(u))
SpecAuth == Init /\ [][NextAuth]_vars

\* principals, applications, and the operations no policy lists
NextDeny ==
  \/ SignupNext
  \/ DenyNext
  \/ \E u \in Requesters, i \in PostingIds, s \in UserIds, st \in StatusInputs :
       InsertApplication(u, i, s, st)
  \/ \E u \in Requesters, id \in AppIds : DeleteApplication(u, id)
SpecDeny == Init /\ [][NextDeny]_vars

\* principals, the student dashboard and inserts made beside it
NextApply ==
  \/ SignupNext
  \/ StudentNext
  \/ CascadeNext
  \/ \E u \in Requesters, i \in PostingIds, s \in UserIds, st \in StatusInputs :
       InsertApplication(u, i, s, st)
SpecApply == Init /\ [][NextApply]_vars

\* principals and both dashboards
NextDashboard == SignupNext \/ StudentNext \/ AdminNext
SpecDashboard == Init /\ [][NextDashboard]_vars

\* ================================================================ claims
Decided == {"accepted", "rejected"}

\* whether the principal behind an answer holds the admin role
IsAdmin(uid) == \E r \in user_roles : r.user_id = uid /\ r.role = "admin"

\* C1: once an application's stored status is accepted or rejected, no step
\* changes the status of that application.
C1_StatusTerminal ==
  [][\A a \in applications : a.status \in Decided =>
       \A b \in applications' : b.id = a.id => b.status = a.status]_vars

\* C4: a step changes an existing application row only when it answers an
\* update by a requester who holds the admin role; an update by anyone else
\* reaches no row and changes none.
C4_UpdateOnlyByAdmin ==
  [][/\ (\E a \in applications, b \in applications' : b.id = a.id /\ b # a)
          => (last'.op = "update_application" /\ IsAdmin(last'.uid))
     /\ (last'.op = "update_application" /\ ~IsAdmin(last'.uid))
          => (applications' = applications /\ last'.rows = {})]_vars

\* a student asked to update their own application and no row was reached
C4_Witness ==
  /\ last.op = "update_application"
  /\ last.uid \in users
  /\ ~IsAdmin(last.uid)
  /\ \E a \in applications : a.id = last.arg.id /\ a.student_id = last.uid
  /\ last.rows = {}

\* the application rows of one (posting, student) pair
PairRows(internship_id, student_id) ==
  {a \in applications : a.internship_id = internship_id /\ a.student_id = student_id}

\* C2: there is at most one application row per (posting, student) pair, and a
\* create attempt for a pair that has a row fails, adds no row and leaves the
\* rows as they are; the failure is the conflict error whenever the insert
\* policy admits the new row.
C2_AtMostOnePerPair ==
  /\ [](\A a, b \in applications :
          (a.internship_id = b.internship_id /\ a.student_id = b.student_id) => a = b)
  /\ [][(/\ last'.op \in {"insert_application", "handleApply"}
         /\ PairRows(last'.arg.internship_id, last'.arg.student_id) # {})
        => /\ applications' = applications
           /\ last'.err \in {"unique", "rls"}
           /\ (/\ last'.uid # NoUid
               /\ last'.uid = last'.arg.student_id
               /\ last'.arg.status = "pending") => last'.err = "unique"]_vars

\* handleApply was answered with the conflict error while another handleApply
\* for the same pair is still in flight
C2_Witness ==
  /\ last.op = "handleApply"
  /\ last.err = "unique"
  /\ Cardinality(PairRows(last.arg.internship_id, last.arg.student_id)) = 1
  /\ \E r \in inflight :
       r.h = "apply" /\ r.uid = last.uid /\ r.app = last.arg.internship_id

\* C5: a step adds an application row only for an authenticated requester,
\* with student_id the requester and status pending; an insert naming another
\* student, another status or no session is denied and adds no row.
C5_CreateOwnPending ==
  [][/\ \A b \in applications' : b.id \notin Ids(applications) =>
          /\ last'.op \in {"insert_application", "handleApply"}
          /\ last'.uid \in users
          /\ b.student_id = last'.uid
          /\ b.status = "pending"
     /\ (/\ last'.op \in {"insert_application", "handleApply"}
         /\ \/ last'.uid = NoUid
            \/ last'.arg.student_id # last'.uid
            \/ last'.arg.status # "pending")
        => (last'.err = "rls" /\ applications' = applications)]_vars

\* a signed-in principal asked to insert a row for another existing principal
C5_Witness ==
  /\ last.op = "insert_application"
  /\ last.uid \in users
  /\ last.arg.student_id \in users
  /\ last.arg.student_id # last.uid
  /\ last.arg.internship_id \in Ids(internships)
  /\ last.arg.status = "pending"
  /\ last.err = "rls"

\* C6: a requester reads an application row exactly when the requester is the
\* row's student or holds the admin role.
C6_ReadOwnOrAdmin ==
  /\ \A uid \in Requesters, a \in applications :
       a \in SelectApplications(uid) <=> (uid = a.student_id \/ IsAdmin(uid))
  /\ last.op = "select_applications" =>
       last.rows = {a.id : a \in {x \in applications :
                                    x.student_id = last.uid \/ IsAdmin(last.uid)}}

\* a student read the table while it held a row of theirs and a row of another
\* student, and got their own row only
C6_Witness ==
  /\ last.op = "select_applications"
  /\ last.uid \in users
  /\ ~IsAdmin(last.uid)
  /\ \E a \in applications : a.student_id = last.uid /\ a.id \in last.rows
  /\ \E a \in applications : a.student_id # last.uid /\ a.id \notin last.rows

\* C3: every existing principal has exactly one profile and exactly one role
\* assignment, and no profile or role assignment is left without its principal.
C3_ProfileAndRole ==
  /\ \A u \in users :
       /\ Cardinality({p \in profiles : p.id = u}) = 1
       /\ Cardinality({r \in user_roles : r.user_id = u}) = 1
  /\ \A p \in profiles : p.id \in users
  /\ \A r \in user_roles : r.user_id \in users

\* a signup has just created a student next to an earlier principal
C3_Witness ==
  /\ last.op = "signup"
  /\ last.err = "none"
  /\ Cardinality(users) = 2
  /\ \E u \in last.rows : [user_id |-> u, role |-> "student"] \in user_roles

\* C10: a requester reads a profile row or a role assignment only when it is
\* their own, and an update of profiles changes only the requester's own row;
\* an admin is no exception.
C10_OwnerOnly ==
  /\ [](/\ last.op = "select_profiles" =>
             last.rows = {p.id : p \in {x \in profiles : x.id = last.uid}}
        /\ last.op = "select_user_roles" =>
             last.rows = {r.user_id : r \in {x \in user_roles : x.user_id = last.uid}})
  /\ [][\A p \in profiles : p \notin profiles' =>
          \/ last'.op = "delete_user"
          \/ last'.op = "update_profile" /\ last'.uid = p.id /\ last'.rows = {p.id}]_vars

\* an admin read the profiles while another principal's profile existed and
\* got their own row only
C10_Witness ==
  /\ last.op = "select_profiles"
  /\ IsAdmin(last.uid)
  /\ last.rows = {last.uid}
  /\ \E p \in profiles : p.id # last.uid

\* C7: a read of the internships returns an inactive posting exactly to the
\* admins, and returns every active posting to every authenticated requester.
C7_InactiveHidden ==
  last.op = "select_internships" =>
    \A i \in internships :
      /\ i.is_active = FALSE => (i.id \in last.rows <=> IsAdmin(last.uid))
      /\ (i.is_active = TRUE /\ last.uid # NoUid) => i.id \in last.rows

\* a student read the internships while one was inactive and one active
C7_Witness ==
  /\ last.op = "select_internships"
  /\ last.uid \in users
  /\ ~IsAdmin(last.uid)
  /\ \E i \in internships : i.is_active = FALSE /\ i.id \notin last.rows
  /\ \E i \in internships : i.is_active = TRUE /\ i.id \in last.rows

\* whether a requester has any role assignment
HasNoRole(uid) == \A r \in user_roles : r.user_id # uid

\* C8 as stated: a requester with no role assignment who reads the internships
\* gets no posting and no error.
C8_RolelessSeesNothing ==
  (last.op = "select_internships" /\ HasNoRole(last.uid)) =>
    (last.rows = {} /\ last.err = "none")

\* C8 as amended: a read of the internships never ends in an error; a
\* requester without a session gets no posting, and a requester with a session
\* and no role assignment gets exactly the active postings.
C8_UnauthenticatedSeesNothing ==
  last.op = "select_internships" =>
    /\ last.err = "none"
    /\ last.uid = NoUid => last.rows = {}
    /\ (last.uid # NoUid /\ HasNoRole(last.uid)) =>
         last.rows = {i.id : i \in {x \in internships : x.is_active = TRUE}}

\* a request without a session read the internships while an active one existed
C8_Witness ==
  /\ last.op = "select_internships"
  /\ last.uid = NoUid
  /\ \E i \in internships : i.is_active = TRUE
  /\ last.rows = {}

\* C9: a step changes the internships only when it answers an insert, update
\* or delete by a requester who holds the admin role; the same request by
\* anyone else leaves the internships as they are.
C9_PostingsOnlyByAdmin ==
  [][/\ internships' # internships =>
          /\ last'.op \in {"insert_internship", "update_internship", "delete_internship"}
          /\ IsAdmin(last'.uid)
     /\ (/\ last'.op \in {"insert_internship", "update_internship", "delete_internship"}
         /\ ~IsAdmin(last'.uid))
        => /\ internships' = internships
           /\ last'.rows = {}
           /\ last'.op = "insert_internship" => last'.err = "rls"]_vars

\* a student asked to insert an internship and was refused
C9_Witness ==
  /\ last.op = "insert_internship"
  /\ last.uid \in users
  /\ ~IsAdmin(last.uid)
  /\ last.err = "rls"

\* C11: every (table, operation) pair the policies do not list is denied for
\* every requester. A DELETE on applications, an INSERT or DELETE on profiles
\* and an INSERT, UPDATE or DELETE on user_roles write no row and leave every
\* table as it was, the INSERTs with a policy error; profiles and role
\* assignments appear and disappear only with their principal, and an
\* application disappears only by the cascade of a deleted principal.
UnlistedOps ==
  {"delete_application", "insert_profile", "delete_profile",
   "insert_user_role", "update_user_role", "delete_user_role"}

C11_UnlistedDenied ==
  [][/\ last'.op \in UnlistedOps =>
          /\ dbVars' = dbVars
          /\ last'.rows = {}
          /\ last'.op \in {"insert_profile", "insert_user_role"} => last'.err = "rls"
     /\ Ids(profiles') # Ids(profiles) => last'.op \in {"signup", "delete_user"}
     /\ user_roles' # user_roles => last'.op \in {"signup", "delete_user"}
     /\ (\E a \in applications : a \notin applications') => last'.op = "delete_user"
    ]_vars

\* a student asked to delete their own application, which is still there
C11_Witness ==
  /\ last.op = "delete_application"
  /\ \E a \in applications : a.id = last.arg.id /\ a.student_id = last.uid
  /\ last.rows = {}

\* C12: every status write handleStatusUpdate commits is followed by exactly
\* one notification attempt, and a notification is attempted only in the step
\* after that handler's write has committed: none when the update failed or
\* reached no row, none before the write.
NewEmailRequests == {r \in inflight' : r.h = "email" /\ r \notin inflight}

C12_NotifyOnlyAfterCommit ==
  [][/\ \A r \in NewEmailRequests :
          /\ last'.op = "handleStatusUpdate"
          /\ last'.err = "none"
          /\ last'.rows = {r.app}
     /\ last'.op = "handleStatusUpdate" /\ last'.rows # {} =>
          Cardinality(NewEmailRequests) = 1
     /\ notified' # notified =>
          \E r \in inflight : r.h = "email" /\ r \notin inflight'
                                /\ notified' = notified \cup {EmailBody(r)}
    ]_vars

\* C13: when the notification fails after the status write, the step that
\* receives the failure changes no application, so nothing is rolled back: the
\* row holds the status and feedback of that call unless another call for the
\* same application has written since. The admin is shown the warning toast,
\* which is neither the success toast nor the update-failure toast, and the
\* call leaves no notification or update request in flight.
EmailFailed == last'.op = "send_application_email" /\ last'.err # "none"

OtherCallFor(r) ==
  \/ \E q \in inflight \ {r} : q.app = r.app /\ q.h \in {"update", "email"}
  \/ \E m \in notified : m.app = r.app /\ m # EmailBody(r)

C13_EmailFailureKeepsWrite ==
  [][EmailFailed =>
       /\ applications' = applications
       /\ Toast(last') = ToastEmailFailed
       /\ Toast(last') \notin {ToastSuccess, ToastUpdateError, NULL}
       /\ \E r \in inflight :
            /\ r.h = "email" /\ r.uid = last'.uid /\ last'.rows = {r.app}
            /\ r \notin inflight'
            /\ \A q \in inflight' : q.n = r.n => q.h \notin {"update", "email"}
            /\ notified' \ notified \subseteq {EmailBody(r)}
            /\ \A a \in applications' :
                 a.id = r.app /\ ~OtherCallFor(r) =>
                   a.status = r.status /\ a.feedback = r.feedback
    ]_vars

\* the email failed for an application whose row holds the decided status
C13_Witness ==
  /\ last.op = "send_application_email"
  /\ last.err = "email"
  /\ \E a \in applications : a.id \in last.rows /\ a.status \in Decided

\* C14: the notification handleStatusUpdate sends after a committed status
\* write carries the status and the feedback the row now holds (an absent
\* feedback travels as the empty text) and is addressed to the email of the
\* applicant's profile, a profile the SELECT policy lets that admin read.
FeedbackText(feedback) == IF feedback = NULL THEN "" ELSE feedback

NotificationsFor(app) == {m \in notified : m.app = app}

C15_AtMostOneNotification ==
  /\ \A app \in AppIds : Cardinality(NotificationsFor(app)) <= 1
  /\ \A r \in inflight : r.h = "email" => NotificationsFor(r.app) = {}

C18_OneRoleForLife ==
  [][/\ \A u \in users' :
          Cardinality({r \in user_roles' : r.user_id = u}) = 1
     /\ \A r \in user_roles' : r.role \in app_role
     /\ \A u \in users \cap users' :
          {r \in user_roles' : r.user_id = u} = {r \in user_roles : r.user_id = u}
    ]_vars

\* a student asked for the admin role on their own principal and was refused
C18_Witness ==
  /\ last.op = "insert_user_role" /\ last.err = "rls"
  /\ last.uid = last.arg.id /\ last.arg.role = "admin"
  /\ user_roles = {[user_id |-> last.uid, role |-> "student"]}
  /\ last.uid \in users

\* C19: a signup whose profile cannot be created, as when its student id is
\* already in a profile, fails as a whole: no principal, no session, no
\* profile and no role assignment is added.
C19_FailedSignupChangesNothing ==
  [][last'.op = "signup" =>
       /\ (\E p \in profiles : p.student_id # NULL /\ p.student_id = last'.arg.student_no)
            => last'.err # "none"
       /\ last'.err # "none" =>
            /\ users' = users /\ sessions' = sessions
            /\ profiles' = profiles /\ user_roles' = user_roles
            /\ last'.rows = {}
    ]_vars

\* a signup was refused because a profile already holds its student id
C19_Witness ==
  /\ last.op = "signup" /\ last.err = "unique"
  /\ \E p \in profiles : p.student_id = last.arg.student_no
  /\ Cardinality(users) = Cardinality(profiles)

\* C20: has_role answers true exactly when the (principal, role) assignment
\* exists, whoever calls it and whatever rows the caller may select; for a
\* principal without that role and for a null principal it answers false,
\* never an error; the call changes no table.
C20_HasRoleExact ==
  [][last'.op = "has_role" =>
       /\ last'.err = "none"
       /\ dbVars' = dbVars
       /\ last'.rows # {}
            <=> [user_id |-> last'.arg.id, role |-> last'.arg.role] \in user_roles
       /\ last'.arg.id = NoUid => last'.rows = {}
    ]_vars

\* a requester asked about another principal's role and was told true
C20_Witness ==
  /\ last.op = "has_role"
  /\ last.uid # last.arg.id
  /\ last.rows = {last.arg.id}
  /\ last.arg.id # NoUid

\* C21: in every reachable state the status of every application row is one
\* of pending, accepted and rejected, never absent and never another value,
\* and a row that has just been created has status pending.
C21_StatusInDomain ==
  /\ \A a \in applications : a.status \in StatusValues
  /\ \A a \in applications : a.updated_at = a.applied_at => a.status = "pending"

\* C22: handleSignUp rejects its input exactly when the email is not a valid
\* address, the password has fewer than 6 characters or the display name is
\* empty, and handleSignIn exactly when the email is not valid or the password
\* is empty. A rejection sends nothing to the identity provider, changes no
\* table, reports only the first violation (email, then password, then name)
\* and leaves the loading flag false.
ValidEmailInputs ==
  { <<"a", "@", "b", ".", "c", "o">>, <<" ", "a", "@", "b", ".", "c", "o", " ">> }

EmptyNameInputs == { <<>>, <<" ", " ">> }

FirstSignupViolation(a) ==
  IF a.email \notin ValidEmailInputs THEN "Invalid email address"
  ELSE IF Len(a.password) < 6 THEN "Password must be at least 6 characters"
  ELSE IF a.fullName \in EmptyNameInputs THEN "Full name is required"
  ELSE "none"

FirstSigninViolation(a) ==
  IF a.email \notin ValidEmailInputs THEN "Invalid email address"
  ELSE IF Len(a.password) < 1 THEN "Password is required"
  ELSE "none"

C22_ValidatedBeforeCall ==
  [][/\ last'.op = "call_handleSignUp" => last'.err = FirstSignupViolation(last'.arg)
     /\ last'.op = "call_handleSignIn" => last'.err = FirstSigninViolation(last'.arg)
     /\ last'.op \in {"call_handleSignUp", "call_handleSignIn"} =>
          IF last'.err # "none"
          THEN inflight' = inflight /\ dbVars' = dbVars /\ authLoading' = FALSE
          ELSE \E r \in inflight' :
                 /\ r \notin inflight
                 /\ inflight' = inflight \cup {r}
                 /\ r.meta = last'.arg
    ]_vars

\* a signup with a short password and an empty name was rejected for the
\* password alone, and nothing was sent
C22_Witness ==
  /\ last.op = "call_handleSignUp"
  /\ last.err = "Password must be at least 6 characters"
  /\ last.arg.fullName \in EmptyNameInputs
  /\ inflight = {}
  /\ ~authLoading

\* C23: the notification sender composes the acceptance template for status
\* accepted and the rejection template for status rejected, answers success
\* exactly when the mail provider accepted the message, and does not take any
\* other status as valid input: for such a status it composes no message and
\* answers failure.
C23_OnlyDecidedStatuses ==
  [][last'.op = "send-application-email" =>
       /\ last'.arg.status = "accepted" => last'.arg.subject = SubjectAccepted
       /\ last'.arg.status = "rejected" => last'.arg.subject = SubjectRejected
       /\ last'.arg.status \in Decided => (last'.err = "none" <=> last'.rows # {})
       /\ last'.arg.status \notin Decided =>
            last'.err # "none" /\ last'.arg.subject = NULL /\ last'.rows = {}
    ]_vars

\* C24, its first part: a ProtectedRoute shows its children only when loading
\* is false, a user is present and the required role, if any, is the resolved
\* one; a resolved context that fails this shows nothing and is sent to /auth
\* without a user, else to the dashboard of its role
C24_GuardRendersAndRedirects ==
  \A requiredRole \in app_role \cup {NULL} :
    LET allowed == /\ ~auth.loading
                   /\ auth.user # NoUid
                   /\ requiredRole = NULL \/ auth.userRole = requiredRole
        target == ProtectedRouteTarget(auth, requiredRole, "here")
    IN /\ ProtectedRouteRender(auth, requiredRole) = "children" <=> allowed
       /\ allowed => target = "here"
       /\ ~auth.loading /\ ~allowed =>
            /\ ProtectedRouteRender(auth, requiredRole) = "nothing"
            /\ target = IF auth.user = NoUid THEN "/auth"
                        ELSE IF auth.userRole = "admin" THEN "/admin" ELSE "/student"

\* the route the redirects lead to from `path` under the context `ctx`
RouteEnd(ctx, path) == RouteTarget(ctx, RouteTarget(ctx, path))

\* C24: under every resolved context, with or without a user and whatever the
\* resolved role, the redirects from the current route end on a route that
\* redirects no further and shows its children
C24_RedirectsEndRendered ==
  ~auth.loading =>
    /\ RouteTarget(auth, RouteEnd(auth, route)) = RouteEnd(auth, route)
    /\ RouteRender(auth, RouteEnd(auth, route)) = "children"

\* C24 for the contexts that carry a role or no user at all
C24_RedirectsEndRenderedWithRole ==
  ~auth.loading /\ (auth.user = NoUid \/ auth.userRole \in app_role) =>
    /\ RouteTarget(auth, RouteEnd(auth, route)) = RouteEnd(auth, route)
    /\ RouteRender(auth, RouteEnd(auth, route)) = "children"

C24_Witness ==
  /\ last.op = "ProtectedRoute.navigate"
  /\ route = "/admin"
  /\ auth.userRole = "admin"
  /\ RouteRender(auth, route) = "children"

\* the fetchApplications call of request r returns in this step
FetchCompletes(r) ==
  /\ r.h = "fetch"
  /\ r \notin inflight'
  /\ last'.op = "fetchApplications"
  /\ last'.uid = r.uid

\* C25, the loading flag: when a fetchApplications call completes, whether the
\* read succeeded or returned an error, loading is false
C25_LoadingReturnsToFalse ==
  [][\A r \in inflight : FetchCompletes(r) => ~loading'[r.uid]]_vars

\* a select whose answer can still reach the mounted dashboard of uid is under
\* way, or an email call after which the dashboard sends one
FetchPending(uid) ==
  \E q \in inflight : q.uid = uid /\ q.mounted /\ q.h \in {"fetch", "email"}

\* C25, what follows a failed read: with loading true and no select under way
\* or to come, loading stays true in every step, a new mount included
C25_LoadingStaysWithoutNewCall ==
  [][\A u \in UserIds : loading[u] /\ ~FetchPending(u) => loading'[u]]_vars

\* the state right after a read of a mounted dashboard returned an error
C25_FailedReadWitness ==
  /\ last.op = "fetchApplications"
  /\ last.err # "none"
  /\ loading[last.uid]
  /\ ~FetchPending(last.uid)

\* the handleStatusUpdate call of request r of a mounted dashboard returns in
\* this step: the update failed, or the email function answered
HandleStatusUpdateCompletes(r) ==
  /\ r.h \in {"update", "email"}
  /\ r.mounted
  /\ r \notin inflight'
  /\ [r EXCEPT !.h = "email"] \notin inflight'
  /\ last'.uid = r.uid
  /\ last'.op \in {"handleStatusUpdate", "send_application_email"}

\* C25, the processingId flag: when a handleStatusUpdate call completes,
\* whether the update succeeded, the update failed or the email failed,
\* processingId is null
C25_ProcessingIdReturnsToNull ==
  [][\A r \in inflight : HandleStatusUpdateCompletes(r) => processingId'[r.uid] = 0]_vars

\* an update that failed, or an email that failed, on a mounted dashboard
C25_ProcessingIdWitness ==
  /\ last.op \in {"handleStatusUpdate", "send_application_email"}
  /\ last.err # "none"
  /\ processingId[last.uid] = 0
  /\ ~loading[last.uid] \/ FetchPending(last.uid)

====
